---- MODULE Spec2Model ----
(***************************************************************************)
(* A model of the blob pipeline of crypto-cli.                             *)
(*                                                                         *)
(*   distribution.ImageManifest.Encrypt / DecryptKeys / DecryptManifest    *)
(*   images.layersToEncrypt / encryptPositions (and the older numLayers)   *)
(*                                                                         *)
(* Strings that the code formats (the salts) are sequences of characters,  *)
(* formatted by a model of fmt.Sprintf.  Blobs are records tagged with     *)
(* the variant of the type-state pipeline they are in.                     *)
(***************************************************************************)
EXTENDS Integers, Sequences, FiniteSets, TLC

\* ------------------------------------------------------------------------
\* Bounds
\* ------------------------------------------------------------------------

\* the largest number of layers of a manifest
MaxLayers == 3

\* the longest build history drawn exhaustively
MaxHist == 4

\* ------------------------------------------------------------------------
\* fmt.Sprintf over character sequences
\* ------------------------------------------------------------------------

DigitChars == <<"0", "1", "2", "3", "4", "5", "6", "7", "8", "9">>

\* %d of a non-negative int
RECURSIVE Dec(_)
Dec(n) ==
    IF n < 10 THEN <<DigitChars[n + 1]>>
    ELSE Dec(n \div 10) \o <<DigitChars[(n % 10) + 1]>>

\* fmt.Sprintf(f, args...): the verbs %s and %d are single elements of f
RECURSIVE Sprintf(_, _)
Sprintf(f, args) ==
    IF f = <<>> THEN <<>>
    ELSE IF Head(f) = "%s" THEN Head(args) \o Sprintf(Tail(f), Tail(args))
    ELSE IF Head(f) = "%d" THEN Dec(Head(args)) \o Sprintf(Tail(f), Tail(args))
    ELSE <<Head(f)>> \o Sprintf(Tail(f), args)

saltBase ==
    <<"c", "o", "m", ".", "s", "e", "n", "e", "t", "a", "s", ".",
      "c", "r", "y", "p", "t", "o", "/", "%s", "/", "%s">>

configSalt == saltBase \o <<"/", "c", "o", "n", "f", "i", "g">>

layerSalt == saltBase \o <<"/", "l", "a", "y", "e", "r", "%d">>

\* Encrypt: opts.Salt = fmt.Sprintf(configSalt, ref.Path(), ref.Tag())
EncryptConfigSalt(ref) == Sprintf(configSalt, <<ref.path, ref.tag>>)

\* mutant: the layers are salted with the config's format
EncryptLayerSaltAsConfig(ref, i) == Sprintf(configSalt, <<ref.path, ref.tag>>)

\* Encrypt: opts.Salt = fmt.Sprintf(layerSalt, ref.Path(), ref.Tag(), i)
EncryptLayerSalt(ref, i) == Sprintf(layerSalt, <<ref.path, ref.tag, i>>)

\* DecryptKeys: opts.Salt = fmt.Sprintf(configSalt, ref.Path(), ref.Tag())
DecryptKeysConfigSalt(ref) == Sprintf(configSalt, <<ref.path, ref.tag>>)

\* mutant: the layers are counted from 1
DecryptKeysLayerSaltFromOne(ref, i) == Sprintf(layerSalt, <<ref.path, ref.tag, i + 1>>)

\* DecryptKeys: opts.Salt = fmt.Sprintf(layerSalt, ref.Path(), ref.Tag(), i)
DecryptKeysLayerSalt(ref, i) == Sprintf(layerSalt, <<ref.path, ref.tag, i>>)

\* a blob position: ConfigPos is the config, i >= 0 is layer i (as the code counts)
ConfigPos == 0 - 1

\* ------------------------------------------------------------------------
\* References (repository path, tag) and passphrases
\* ------------------------------------------------------------------------

\* repository paths: components joined by "/", none empty
Paths == { <<"a">>, <<"a", "b">>, <<"a", "/", "b">>, <<"a", "/", "b", "/", "b">> }

\* tags: no "/" in a tag
Tags == { <<"b">>, <<"b", "b">>, <<"v">> }

AllRefs == [path : Paths, tag : Tags]

\* the references the operations are called with
Refs == { [path |-> <<"a">>, tag |-> <<"v">>],
          [path |-> <<"a", "/", "b">>, tag |-> <<"b">>] }

Passphrases == {"k1", "k2"}

\* ------------------------------------------------------------------------
\* Blobs: one record per blob, tagged with its variant
\*   v     the variant ("Nil" is the nil interface value)
\*   name  the file name, a sequence of name parts
\*   p     the plaintext the file was made from
\*   ops   the transforms applied to the plaintext, oldest first
\*   fk    the data key the file is encrypted under (0: not encrypted)
\*   key   the raw data key held in memory (0: none)
\*   wk    the wrapped data key: the key, and the passphrase and salt of
\*         the key-encryption-key that wraps it
\* ------------------------------------------------------------------------

NoWrap == [k |-> 0, pass |-> "", salt |-> <<>>]

NilBlob == [v |-> "Nil", name |-> <<>>, p |-> 0, ops |-> <<>>, fk |-> 0, key |-> 0,
            wk |-> NoWrap]

\* the type switches of the orchestrator
IsDecryptedBlob(b) == b.v = "DecryptedPending"
IsNoncryptedBlob(b) == b.v \in {"Plain", "Compressed"}
IsEncryptedBlob(b) == b.v = "KeyWrapped"
IsKeyDecryptedBlob(b) == b.v = "KeyUnwrapped"
IsCompressedBlob(b) == b.v = "Compressed"

\* crypto.GenDataKey: a fresh key for every blob of a manifest
GenDataKey(pos) == pos + 2

\* DecryptedBlob.EncryptBlob(opts, outname): encrypt the file under a fresh
\* data key, wrap that key under the key derived from (passphrase, salt)
EncryptBlob(b, opts, outname, pos) ==
    [v |-> "KeyWrapped", name |-> outname, p |-> b.p, ops |-> Append(b.ops, "aes"),
     fk |-> GenDataKey(pos), key |-> 0,
     wk |-> [k |-> GenDataKey(pos), pass |-> opts.pass, salt |-> opts.salt]]

\* NoncryptedBlob.Compress(outname)
Compress(b, outname) ==
    [b EXCEPT !.v = "Compressed", !.name = outname, !.ops = Append(b.ops, "gz")]

\* NewPlainConfigBlob(filename, digest, size): the same file, in the clear
NewPlainConfigBlob(b) == [b EXCEPT !.v = "Plain"]

\* crypto: the key-encryption-key derived from (passphrase, salt) unwraps a
\* key exactly when it is the key that wrapped it
UnwrapOK(b, opts) == b.wk.pass = opts.pass /\ b.wk.salt = opts.salt

\* EncryptedBlob.DecryptKey(opts), when the key unwraps
DecryptKey(b, opts) == [b EXCEPT !.v = "KeyUnwrapped", !.key = b.wk.k]

\* KeyDecryptedBlob.DecryptFile(outname): authenticated decryption
DecryptFileOK(b) ==
    /\ b.ops # <<>>
    /\ b.ops[Len(b.ops)] = "aes"
    /\ b.key = b.fk

DecryptFile(b, outname) ==
    [b EXCEPT !.v = "Plain", !.name = outname,
              !.ops = SubSeq(b.ops, 1, Len(b.ops) - 1),
              !.fk = 0, !.key = 0, !.wk = NoWrap]

\* CompressedBlob.Decompress(outname)
DecompressOK(b) == b.ops # <<>> /\ b.ops[Len(b.ops)] = "gz"

Decompress(b, outname) ==
    [b EXCEPT !.v = "Plain", !.name = outname,
              !.ops = SubSeq(b.ops, 1, Len(b.ops) - 1)]

\* ------------------------------------------------------------------------
\* Errors
\* ------------------------------------------------------------------------

NoPos == 0 - 2

NoErr == [kind |-> "nil", at |-> NoPos]

Error(kind, pos) == [kind |-> kind, at |-> pos]

\* an environment fault: the operation on the blob at `at` fails
\*   kind "op"    the blob transition itself fails (EncryptBlob, Compress, ...)
\*   kind "open"  the plain config file cannot be opened (ReadCloser)
\*   kind "read"  the plain config file cannot be read (io.Copy)
NoFault == [at |-> NoPos, kind |-> "none"]

\* ------------------------------------------------------------------------
\* Manifests
\* ------------------------------------------------------------------------

\* the nil *ImageManifest
NoManifest == [SchemaVersion |-> 0, MediaType |-> "", DirName |-> "",
               Config |-> NilBlob, Layers |-> <<>>]

\* the blob of manifest m at a position
BlobAt(m, pos) == IF pos = ConfigPos THEN m.Config ELSE m.Layers[pos + 1]

Positions(m) == {ConfigPos} \cup (0 .. Len(m.Layers) - 1)

\* ------------------------------------------------------------------------
\* ImageManifest.Encrypt
\*   A step gives the blob it produced, the error, the positions a
\*   transition was called on and the salts handed to the key derivation.
\* ------------------------------------------------------------------------

\* the switch on m.Config
\* blob.ReadCloser(): the reader on the file of the blob
ReadCloser(blob) == [of |-> "ReadCloser", file |-> blob.name]

EncryptConfig(m, ref, pass, fault, onNil) ==
    LET blob == m.Config
        failing == fault.at = ConfigPos
        salt == EncryptConfigSalt(ref)
        opts == [pass |-> pass, salt |-> salt]
    IN  IF IsDecryptedBlob(blob) THEN
            [blob |-> IF failing THEN NilBlob
                      ELSE EncryptBlob(blob, opts, Append(blob.name, ".aes"), ConfigPos),
             err |-> IF failing THEN Error("EncryptBlob", ConfigPos) ELSE NoErr,
             calls |-> <<ConfigPos>>,
             salts |-> <<[pos |-> ConfigPos, salt |-> salt]>>,
             opened |-> {}]
        ELSE IF IsNoncryptedBlob(blob) THEN
            \* r, err := blob.ReadCloser(); size, err := io.Copy(digester.Hash(), r)
            \* the error of ReadCloser is overwritten unread: io.Copy runs on the
            \* reader that was not opened, and panics or fails; r is not
            \* closed on any path
            [blob |-> IF failing THEN NilBlob ELSE NewPlainConfigBlob(blob),
             err |-> IF ~failing THEN NoErr
                     ELSE IF fault.kind = "open" /\ onNil = "panic"
                          THEN Error("panic", ConfigPos)
                     ELSE Error("Copy", ConfigPos),
             calls |-> <<ConfigPos>>,
             salts |-> <<>>,
             opened |-> IF failing /\ fault.kind = "open" THEN {}
                        ELSE {ReadCloser(blob)}]
        ELSE
            [blob |-> NilBlob, err |-> NoErr, calls |-> <<>>, salts |-> <<>>,
             opened |-> {}]

\* mutant: a plain layer is passed on as it is, not compressed
EncryptLayerUncompressed(l, i, ref, pass, fault) ==
    LET failing == fault.at = i
        salt == EncryptLayerSalt(ref, i)
        opts == [pass |-> pass, salt |-> salt]
    IN  IF IsDecryptedBlob(l) THEN
            [blob |-> IF failing THEN NilBlob
                      ELSE EncryptBlob(l, opts, Append(l.name, ".aes"), i),
             err |-> IF failing THEN Error("EncryptBlob", i) ELSE NoErr,
             calls |-> <<i>>,
             salts |-> <<[pos |-> i, salt |-> salt]>>]
        ELSE IF IsNoncryptedBlob(l) THEN
            [blob |-> IF failing THEN NilBlob ELSE l,
             err |-> IF failing THEN Error("Compress", i) ELSE NoErr,
             calls |-> <<i>>,
             salts |-> <<>>]
        ELSE
            [blob |-> NilBlob, err |-> NoErr, calls |-> <<>>, salts |-> <<>>]

\* the switch on layer i (l = m.Layers[i])
EncryptLayer(l, i, ref, pass, fault) ==
    LET failing == fault.at = i
        salt == EncryptLayerSalt(ref, i)
        opts == [pass |-> pass, salt |-> salt]
    IN  IF IsDecryptedBlob(l) THEN
            [blob |-> IF failing THEN NilBlob
                      ELSE EncryptBlob(l, opts, Append(l.name, ".aes"), i),
             err |-> IF failing THEN Error("EncryptBlob", i) ELSE NoErr,
             calls |-> <<i>>,
             salts |-> <<[pos |-> i, salt |-> salt]>>]
        ELSE IF IsNoncryptedBlob(l) THEN
            [blob |-> IF failing THEN NilBlob ELSE Compress(l, Append(l.name, ".gz")),
             err |-> IF failing THEN Error("Compress", i) ELSE NoErr,
             calls |-> <<i>>,
             salts |-> <<>>]
        ELSE
            [blob |-> NilBlob, err |-> NoErr, calls |-> <<>>, salts |-> <<>>]

\* make([]Blob, len(m.Layers)): every slot nil
MakeBlobs(n) == [k \in 1 .. n |-> NilBlob]

\* mutant: the blob is appended to the slice that make() already sized
StoreBlobAppended(blobs, i, blob) == Append(blobs, blob)

\* layerBlobs[i], err = ...: the blob goes to slot i
StoreBlob(blobs, i, blob) == [blobs EXCEPT ![i + 1] = blob]

\* for i, l := range m.Layers, from layer i on; acc is what the loop has so far
RECURSIVE EncryptLayers(_, _, _, _, _, _)
EncryptLayers(m, i, acc, ref, pass, fault) ==
    IF i >= Len(m.Layers) THEN acc
    ELSE LET step == EncryptLayer(m.Layers[i + 1], i, ref, pass, fault)
             next == [blobs |-> IF step.blob = NilBlob THEN acc.blobs
                                ELSE StoreBlob(acc.blobs, i, step.blob),
                      err |-> step.err,
                      calls |-> acc.calls \o step.calls,
                      salts |-> acc.salts \o step.salts]
         IN  IF step.err # NoErr THEN next
             ELSE EncryptLayers(m, i + 1, next, ref, pass, fault)

\* m.Encrypt(ref, opts): the returned manifest (ok: it is not nil) and error
Encrypt(m, ref, pass, fault, onNil) ==
    LET c == EncryptConfig(m, ref, pass, fault, onNil)
        start == [blobs |-> MakeBlobs(Len(m.Layers)), err |-> NoErr,
                  calls |-> c.calls, salts |-> c.salts]
        ls == EncryptLayers(m, 0, start, ref, pass, fault)
    IN  IF c.err # NoErr THEN
            [ok |-> FALSE, out |-> NoManifest, err |-> c.err,
             calls |-> c.calls, salts |-> c.salts, open |-> c.opened]
        ELSE IF ls.err # NoErr THEN
            [ok |-> FALSE, out |-> NoManifest, err |-> ls.err,
             calls |-> ls.calls, salts |-> ls.salts, open |-> c.opened]
        ELSE
            [ok |-> TRUE,
             out |-> [SchemaVersion |-> m.SchemaVersion,
                      MediaType |-> m.MediaType,
                      DirName |-> m.DirName,
                      Config |-> c.blob,
                      Layers |-> ls.blobs],
             err |-> NoErr, calls |-> ls.calls, salts |-> ls.salts,
             open |-> c.opened]

\* ------------------------------------------------------------------------
\* ImageManifest.DecryptKeys: unwraps the keys of m in place
\* ------------------------------------------------------------------------

\* what a failed DecryptKey returns next to its error
FailedDecryptKey(b) == NilBlob

\* mutant: the unwrapped blob is dropped, the manifest keeps the wrapped one
DecryptKeysBlobNotStored(blob, pos, salt, pass) ==
    LET opts == [pass |-> pass, salt |-> salt]
    IN  IF IsEncryptedBlob(blob) THEN
            [blob |-> blob,
             err |-> IF UnwrapOK(blob, opts) THEN NoErr ELSE Error("DecryptKey", pos),
             calls |-> <<pos>>,
             salts |-> <<[pos |-> pos, salt |-> salt]>>]
        ELSE IF IsNoncryptedBlob(blob) THEN
            [blob |-> blob, err |-> NoErr, calls |-> <<>>, salts |-> <<>>]
        ELSE
            [blob |-> blob, err |-> Error("wrong type", pos),
             calls |-> <<>>, salts |-> <<>>]

\* the switch on one blob; pos is ConfigPos or the layer index
DecryptKeysBlob(blob, pos, salt, pass) ==
    LET opts == [pass |-> pass, salt |-> salt]
    IN  IF IsEncryptedBlob(blob) THEN
            \* m.Config, err = blob.DecryptKey(opts): assigned before err is read
            [blob |-> IF UnwrapOK(blob, opts) THEN DecryptKey(blob, opts)
                      ELSE FailedDecryptKey(blob),
             err |-> IF UnwrapOK(blob, opts) THEN NoErr ELSE Error("DecryptKey", pos),
             calls |-> <<pos>>,
             salts |-> <<[pos |-> pos, salt |-> salt]>>]
        ELSE IF IsNoncryptedBlob(blob) THEN
            [blob |-> blob, err |-> NoErr, calls |-> <<>>, salts |-> <<>>]
        ELSE
            [blob |-> blob, err |-> Error("wrong type", pos),
             calls |-> <<>>, salts |-> <<>>]

\* for i, l := range m.Layers, from layer i on; acc.m is the manifest so far
RECURSIVE DecryptKeysLayers(_, _, _, _)
DecryptKeysLayers(acc, i, ref, pass) ==
    IF i >= Len(acc.m.Layers) THEN acc
    ELSE LET step == DecryptKeysBlob(acc.m.Layers[i + 1], i,
                                     DecryptKeysLayerSalt(ref, i), pass)
             next == [m |-> [acc.m EXCEPT !.Layers[i + 1] = step.blob],
                      err |-> step.err,
                      calls |-> acc.calls \o step.calls,
                      salts |-> acc.salts \o step.salts]
         IN  IF step.err # NoErr THEN next
             ELSE DecryptKeysLayers(next, i + 1, ref, pass)

\* m.DecryptKeys(opts, ref): the manifest as the call leaves it, and the error
DecryptKeys(m, ref, pass) ==
    LET c == DecryptKeysBlob(m.Config, ConfigPos, DecryptKeysConfigSalt(ref), pass)
        start == [m |-> [m EXCEPT !.Config = c.blob], err |-> c.err,
                  calls |-> c.calls, salts |-> c.salts]
    IN  IF c.err # NoErr THEN start
        ELSE DecryptKeysLayers(start, 0, ref, pass)

\* ------------------------------------------------------------------------
\* DecryptManifest
\* ------------------------------------------------------------------------

\* the switch on manifest.Config
DecryptManifestConfig(m, fault) ==
    LET blob == m.Config
        failing == fault.at = ConfigPos \/ ~DecryptFileOK(blob)
    IN  IF IsKeyDecryptedBlob(blob) THEN
            [blob |-> IF failing THEN NilBlob
                      ELSE DecryptFile(blob, Append(blob.name, ".dec")),
             err |-> IF failing THEN Error("DecryptFile", ConfigPos) ELSE NoErr,
             calls |-> <<ConfigPos>>]
        ELSE IF IsNoncryptedBlob(blob) THEN
            [blob |-> blob, err |-> NoErr, calls |-> <<>>]
        ELSE
            [blob |-> NilBlob, err |-> Error("not decryptable", ConfigPos),
             calls |-> <<>>]

\* the switch on layer i (l = manifest.Layers[i])
DecryptManifestLayer(l, i, fault) ==
    IF IsKeyDecryptedBlob(l) THEN
        LET failing == fault.at = i \/ ~DecryptFileOK(l)
        IN  [blob |-> IF failing THEN NilBlob ELSE DecryptFile(l, Append(l.name, ".dec")),
             err |-> IF failing THEN Error("DecryptFile", i) ELSE NoErr,
             calls |-> <<i>>]
    ELSE IF IsCompressedBlob(l) THEN
        LET failing == fault.at = i \/ ~DecompressOK(l)
        IN  [blob |-> IF failing THEN NilBlob ELSE Decompress(l, Append(l.name, ".dec")),
             err |-> IF failing THEN Error("Decompress", i) ELSE NoErr,
             calls |-> <<i>>]
    ELSE
        [blob |-> NilBlob, err |-> NoErr, calls |-> <<>>]

RECURSIVE DecryptManifestLayers(_, _, _, _)
DecryptManifestLayers(m, i, acc, fault) ==
    IF i >= Len(m.Layers) THEN acc
    ELSE LET step == DecryptManifestLayer(m.Layers[i + 1], i, fault)
             next == [blobs |-> IF step.blob = NilBlob THEN acc.blobs
                                ELSE StoreBlob(acc.blobs, i, step.blob),
                      err |-> step.err,
                      calls |-> acc.calls \o step.calls]
         IN  IF step.err # NoErr THEN next
             ELSE DecryptManifestLayers(m, i + 1, next, fault)

\* DecryptManifest(manifest): the returned manifest (ok: not nil) and error
DecryptManifest(m, fault) ==
    LET c == DecryptManifestConfig(m, fault)
        start == [blobs |-> MakeBlobs(Len(m.Layers)), err |-> NoErr, calls |-> c.calls]
        ls == DecryptManifestLayers(m, 0, start, fault)
    IN  IF c.err # NoErr THEN
            [ok |-> FALSE, out |-> NoManifest, err |-> c.err, calls |-> c.calls]
        ELSE IF ls.err # NoErr THEN
            [ok |-> FALSE, out |-> NoManifest, err |-> ls.err, calls |-> ls.calls]
        ELSE
            [ok |-> TRUE,
             out |-> [SchemaVersion |-> m.SchemaVersion,
                      MediaType |-> m.MediaType,
                      DirName |-> m.DirName,
                      Config |-> c.blob,
                      Layers |-> ls.blobs],
             err |-> NoErr, calls |-> ls.calls]

\* ------------------------------------------------------------------------
\* The input manifests
\* ------------------------------------------------------------------------

\* the file name of the blob at a position
BlobName(pos) == IF pos = ConfigPos THEN <<"config">> ELSE <<"layer">> \o Dec(pos)

\* the plaintext of the blob at a position: every blob has its own
Plaintext(pos) == pos + 11

\* the reference the wrapped keys of a pulled manifest were made for
PulledRef == [path |-> <<"a">>, tag |-> <<"v">>]

PulledSalt(pos) ==
    IF pos = ConfigPos THEN EncryptConfigSalt(PulledRef) ELSE EncryptLayerSalt(PulledRef, pos)

\* the blobs a manifest can hold at a position, in every variant the type
\* switches tell apart: Plain and DecryptedPending as mkBlobs makes them, the
\* others as a manifest pulled from a registry or left by an earlier
\* operation holds them
InitBlobs(pos) ==
    LET base == [v |-> "Plain", name |-> BlobName(pos), p |-> Plaintext(pos),
                 ops |-> <<>>, fk |-> 0, key |-> 0, wk |-> NoWrap]
        enc == [base EXCEPT !.ops = <<"aes">>, !.fk = GenDataKey(pos)]
    IN  { base,
          [base EXCEPT !.v = "DecryptedPending"],
          [base EXCEPT !.v = "Compressed", !.ops = <<"gz">>],
          [enc EXCEPT !.v = "KeyUnwrapped", !.key = GenDataKey(pos)] }
        \cup
        { [enc EXCEPT !.v = "KeyWrapped",
                      !.wk = [k |-> GenDataKey(pos), pass |-> k, salt |-> PulledSalt(pos)]]
          : k \in Passphrases }

\* the layer lists of length n: layer i is one of InitBlobs(i)
RECURSIVE LayersOfLen(_)
LayersOfLen(n) ==
    IF n = 0 THEN { <<>> }
    ELSE { Append(ls, b) : ls \in LayersOfLen(n - 1), b \in InitBlobs(n - 1) }

InitLayers == UNION { LayersOfLen(n) : n \in 0 .. MaxLayers }

InitManifests ==
    [SchemaVersion : {2}, MediaType : {"manifest.v2+json"}, DirName : {"tmp/uuid"},
     Config : InitBlobs(ConfigPos), Layers : InitLayers]

\* the faults Encrypt can meet on manifest m
EncryptFaults(m) ==
    {NoFault}
    \cup { [at |-> pos, kind |-> "op"] :
              pos \in { q \in Positions(m) :
                          \/ IsDecryptedBlob(BlobAt(m, q))
                          \/ (q # ConfigPos /\ IsNoncryptedBlob(BlobAt(m, q))) } }
    \cup { [at |-> ConfigPos, kind |-> k] :
              k \in IF IsNoncryptedBlob(m.Config) THEN {"open", "read"} ELSE {} }

\* the faults DecryptManifest can meet on manifest m
DecryptFaults(m) ==
    {NoFault}
    \cup { [at |-> pos, kind |-> "op"] :
              pos \in { q \in Positions(m) :
                          \/ IsKeyDecryptedBlob(BlobAt(m, q))
                          \/ (q # ConfigPos /\ IsCompressedBlob(BlobAt(m, q))) } }

\* ------------------------------------------------------------------------
\* Layer selection: the build history
\*   A history record is [Size, CreatedBy]; CreatedBy is a sequence of
\*   words, among them the words the regular expression looks for.
\* ------------------------------------------------------------------------

\* the words of a created-by string
Nop == "#(nop)"
Blank == " "
labelString == "LABEL com.senetas.crypto.enabled"

\* can the first alternative, #\(nop\)\s+<labelString>=(true|false), match
\* at the head of s; the result is the text of group 1, or "" when it cannot
LabelGroup(s) ==
    LET blanks == { k \in 1 .. Len(s) - 1 : \A j \in 2 .. k + 1 : s[j] = Blank }
        k == IF blanks = {} THEN 0
             ELSE CHOOSE x \in blanks : \A y \in blanks : y <= x
    IN  IF /\ k >= 1
           /\ Len(s) >= k + 3
           /\ s[k + 2] = labelString
           /\ s[k + 3] \in {"=true", "=false"}
        THEN IF s[k + 3] = "=true" THEN "true" ELSE "false"
        ELSE ""

\* re.FindSubmatch(CreatedBy): the leftmost match, the first alternative
\* preferred; <<>> when nothing matches, else <<match, group 1, group 2>>
RECURSIVE FindSubmatch(_)
FindSubmatch(s) ==
    IF s = <<>> THEN <<>>
    ELSE IF Head(s) = Nop THEN
        IF LabelGroup(s) # "" THEN <<"label", LabelGroup(s), "">>
        ELSE <<Nop, "", Nop>>
    ELSE FindSubmatch(Tail(s))

\* mutant: every record is a layer, the "#(nop)" instructions too
IsLayerRecordAlways(h) == h.Size # 0 \/ h.Size = 0

\* hist[i].Size != 0 || len(matches) == 0: the record is a layer
IsLayerRecord(h) == h.Size # 0 \/ Len(FindSubmatch(h.CreatedBy)) = 0

\* mutant: any #(nop) instruction arms the flag
ArmedByAnyNop(toEncrypt, h) ==
    LET g == FindSubmatch(h.CreatedBy)[2]
    IN  IF g = "false" THEN FALSE ELSE TRUE

\* mutant: a LABEL=false instruction does not disarm the flag
ArmedLatched(toEncrypt, h) ==
    LET g == FindSubmatch(h.CreatedBy)[2]
    IN  IF g = "true" THEN TRUE ELSE toEncrypt

\* switch string(matches[1]): the flag after a record that is not a layer
Armed(toEncrypt, h) ==
    LET g == FindSubmatch(h.CreatedBy)[2]
    IN  IF g = "true" THEN TRUE
        ELSE IF g = "false" THEN FALSE
        ELSE toEncrypt

\* mutant: n is incremented before the position is recorded
RecordedPositionAfterIncrement(n) == n + 1

\* encryptPos = append(encryptPos, n): the position recorded for a layer
RecordedPosition(n) == n

\* the loop of encryptPositions starts at the last record and goes down
FirstIndex(h) == Len(h) - 1

NextIndex(i) == i - 1

\* strings.Contains(h.CreatedBy, w)
Contains(s, w) == \E j \in 1 .. Len(s) : s[j] = w

\* numLayers (the earlier selection): counts layers from the newest record
\* down to the first label instruction
RECURSIVE numLayersFrom(_, _, _)
numLayersFrom(hist, j, n) ==
    IF j > Len(hist) THEN [n |-> 0, err |-> Error("missing label", NoPos)]
    ELSE LET h == hist[j]
         IN  IF h.Size # 0 \/ ~Contains(h.CreatedBy, Nop)
             THEN numLayersFrom(hist, j + 1, n + 1)
             ELSE IF Contains(h.CreatedBy, labelString)
             THEN [n |-> n, err |-> NoErr]
             ELSE numLayersFrom(hist, j + 1, n)

numLayers(hist) == numLayersFrom(hist, 1, 0)

\* the created-by strings
RunCmd == <<"/bin/sh -c", Blank, "make">>
LabelTrue == <<"/bin/sh -c", Blank, Nop, Blank, Blank, labelString, "=true">>
LabelFalse == <<"/bin/sh -c", Blank, Nop, Blank, labelString, "=false">>
NopCmd == <<"/bin/sh -c", Blank, Nop, Blank, "CMD">>

HistoryRecords ==
    [Size : {0}, CreatedBy : {RunCmd, LabelTrue, LabelFalse, NopCmd}]
    \cup [Size : {7}, CreatedBy : {RunCmd, LabelTrue}]

Histories == UNION { [1 .. k -> HistoryRecords] : k \in 0 .. MaxHist }

\* the history of the selection example, as the list is given (newest first)
HistExample ==
    << [Size |-> 0, CreatedBy |-> LabelTrue],
       [Size |-> 100, CreatedBy |-> <<"A">>],
       [Size |-> 50, CreatedBy |-> <<"B">>],
       [Size |-> 0, CreatedBy |-> LabelFalse],
       [Size |-> 200, CreatedBy |-> <<"C">>] >>

\* the same build with the markers around A and B in build order
HistBracketed ==
    << [Size |-> 0, CreatedBy |-> LabelFalse],
       [Size |-> 50, CreatedBy |-> <<"B">>],
       [Size |-> 100, CreatedBy |-> <<"A">>],
       [Size |-> 0, CreatedBy |-> LabelTrue],
       [Size |-> 200, CreatedBy |-> <<"C">>] >>

\* a build with two pairs of markers: A and C are between LABEL=true and
\* LABEL=false, B and D are not (newest first)
HistTwoPairs ==
    << [Size |-> 30, CreatedBy |-> <<"D">>],
       [Size |-> 0, CreatedBy |-> LabelFalse],
       [Size |-> 200, CreatedBy |-> <<"C">>],
       [Size |-> 0, CreatedBy |-> LabelTrue],
       [Size |-> 50, CreatedBy |-> <<"B">>],
       [Size |-> 0, CreatedBy |-> LabelFalse],
       [Size |-> 100, CreatedBy |-> <<"A">>],
       [Size |-> 0, CreatedBy |-> LabelTrue] >>

\* the diff ID of the k-th layer of the image, oldest first
DiffID(k) == k + 100

NumNonzero(hist) == Cardinality({ j \in 1 .. Len(hist) : hist[j].Size # 0 })

NumLayerRecords(hist) == Cardinality({ j \in 1 .. Len(hist) : IsLayerRecord(hist[j]) })

\* inspt.RootFS.Layers for a history: one diff ID per layer of the image
RootFSFor(hist) ==
    { [k \in 1 .. len |-> DiffID(k)] : len \in {NumNonzero(hist), NumLayerRecords(hist)} }

\* layersToEncrypt after encryptPositions returned eps:
\* diffIDsToEncrypt[i] = inspt.RootFS.Layers[n]
MapPositions(eps, layers) ==
    IF \E j \in 1 .. Len(eps) : eps[j] >= Len(layers)
    THEN [err |-> Error("panic", NoPos), layers |-> <<>>]
    ELSE [err |-> NoErr, layers |-> [j \in 1 .. Len(eps) |-> layers[eps[j] + 1]]]

\* mutant: an empty list of positions is returned without an error
layersToEncryptUnchecked(eps, layers) == MapPositions(eps, layers)

\* the end of encryptPositions and the rest of layersToEncrypt
layersToEncrypt(eps, layers) ==
    IF Len(eps) = 0
    THEN [err |-> Error("missing label", NoPos), layers |-> <<>>]
    ELSE MapPositions(eps, layers)

\* the earlier layersToEncrypt: inspt.RootFS.Layers[m-n:]
layersToEncryptOld(hist, layers) ==
    LET r == numLayers(hist)
        m == Len(layers)
    IN  IF r.err # NoErr THEN [err |-> r.err, layers |-> <<>>]
        ELSE IF r.n > m THEN [err |-> Error("panic", NoPos), layers |-> <<>>]
        ELSE [err |-> NoErr, layers |-> SubSeq(layers, m - r.n + 1, m)]

\* ------------------------------------------------------------------------
\* mkBlobs: the blobs of an extracted image archive
\*   The archive has a manifest.json naming the config file and the layer
\*   files; a layer file is known by its content.
\* ------------------------------------------------------------------------

\* filepath.Join(path, f)
Join(path, f) == <<path, "/">> \o f

\* opts.EncType
Pbkdf2Aes256Gcm == "Pbkdf2Aes256Gcm"
None == "None"
EncTypes == {Pbkdf2Aes256Gcm, None, "Unknown"}

\* the contents a layer file can have
Contents == {1, 2, 3}

\* digest.Canonical.FromReader(fh) on a file of content c
FromReader(c) == [alg |-> "sha256", sum |-> c]

\* d.String(): "sha256:<sum>"
String(d) == <<d.alg, ":">> \o Dec(d.sum)

\* no digest: the "" given for the digest of a config or of a plain layer
NoDigest == <<>>

\* distribution.NewConfig and NewLayer: a blob staged for encryption
NewConfig(filename, d) == [v |-> "DecryptedPending", name |-> filename, d |-> d]
NewLayer(filename, d) == [v |-> "DecryptedPending", name |-> filename, d |-> d]

\* distribution.NewPlainConfig and NewPlainLayer: a plain blob
NewPlainConfig(filename, d) == [v |-> "Plain", name |-> filename, d |-> d]
NewPlainLayer(filename, d) == [v |-> "Plain", name |-> filename, d |-> d]

NilMkBlob == [v |-> "Nil", name |-> <<>>, d |-> NoDigest]

\* a file handle
FileHandle(filename) == [of |-> "os.File", file |-> filename]

\* what mkBlobs returns when it fails: nil, nil, err
MkFailed(err, opened, closed) ==
    [config |-> NilMkBlob, layers |-> <<>>, err |-> err,
     opened |-> opened, closed |-> closed]

\* fileDigest(filename) on a file of content c: the deferred CheckedClose
\* closes the file on every path on which it was opened
fileDigest(filename, c, fault) ==
    IF fault.kind = "digest open" THEN
        [d |-> NoDigest, err |-> Error("open", fault.at), opened |-> {}, closed |-> {}]
    ELSE IF fault.kind = "digest read" THEN
        [d |-> NoDigest, err |-> Error("FromReader", fault.at),
         opened |-> {FileHandle(filename)}, closed |-> {FileHandle(filename)}]
    ELSE
        [d |-> String(FromReader(c)), err |-> NoErr,
         opened |-> {FileHandle(filename)}, closed |-> {FileHandle(filename)}]

\* layerSet[x] = true for every x of layers
LayerSet(ls) == { ls[j] : j \in 1 .. Len(ls) }

\* mutant: a layer is staged as soon as any layer is to be encrypted
InLayerSetAny(layerSet, d) == layerSet # {}

\* layerSet[d.String()]
InLayerSet(layerSet, d) == d \in layerSet

\* the body of the loop of pbkdf2Aes256GcmEncrypt on layer i (f = image.Layers[i],
\* c the content of the file)
Pbkdf2Layer(path, layerSet, f, c, i, fault) ==
    IF fault.at = i /\ fault.kind = "NewDecrypto" THEN
        [blob |-> NilMkBlob, err |-> Error("NewDecrypto", i),
         opened |-> {}, closed |-> {}]
    ELSE LET r == fileDigest(Join(path, f), c, IF fault.at = i THEN fault ELSE NoFault)
         IN  [blob |-> IF r.err # NoErr THEN NilMkBlob
                       ELSE IF InLayerSet(layerSet, r.d)
                            THEN NewLayer(Join(path, f), r.d)
                            ELSE NewPlainLayer(Join(path, f), r.d),
              err |-> r.err, opened |-> r.opened, closed |-> r.closed]

\* make([]distribution.Blob, n): every slot nil
MakeMkBlobs(n) == [k \in 1 .. n |-> NilMkBlob]

\* for i, f := range image.Layers, from layer i on
RECURSIVE Pbkdf2Layers(_, _, _, _, _, _, _)
Pbkdf2Layers(path, layerSet, image, content, i, acc, fault) ==
    IF i >= Len(image.Layers) THEN acc
    ELSE LET step == Pbkdf2Layer(path, layerSet, image.Layers[i + 1], content[i + 1],
                                 i, fault)
             next == [blobs |-> IF step.err # NoErr THEN acc.blobs
                                ELSE StoreBlob(acc.blobs, i, step.blob),
                      err |-> step.err,
                      opened |-> acc.opened \cup step.opened,
                      closed |-> acc.closed \cup step.closed]
         IN  IF step.err # NoErr THEN next
             ELSE Pbkdf2Layers(path, layerSet, image, content, i + 1, next, fault)

\* pbkdf2Aes256GcmEncrypt: the config is staged, a layer is staged when its
\* digest is in layerSet
pbkdf2Aes256GcmEncrypt(path, layerSet, image, content, fault) ==
    IF fault.at = ConfigPos /\ fault.kind = "NewDecrypto" THEN
        MkFailed(Error("NewDecrypto", ConfigPos), {}, {})
    ELSE LET start == [blobs |-> MakeMkBlobs(Len(image.Layers)), err |-> NoErr,
                       opened |-> {}, closed |-> {}]
             ls == Pbkdf2Layers(path, layerSet, image, content, 0, start, fault)
         IN  IF ls.err # NoErr THEN MkFailed(ls.err, ls.opened, ls.closed)
             ELSE [config |-> NewConfig(Join(path, image.Config), NoDigest),
                   layers |-> ls.blobs, err |-> NoErr,
                   opened |-> ls.opened, closed |-> ls.closed]

\* noneEncrypt: every blob is plain, no file is read
noneEncrypt(path, layerSet, image) ==
    [config |-> NewPlainConfig(Join(path, image.Config), NoDigest),
     layers |-> [k \in 1 .. Len(image.Layers) |->
                    NewPlainLayer(Join(path, image.Layers[k]), NoDigest)],
     err |-> NoErr, opened |-> {}, closed |-> {}]

NoImage == [Config |-> <<>>, Layers |-> <<>>]

\* mkArchiveStruct: the first image of manifest.json
mkArchiveStruct(images, fault) ==
    IF fault.kind = "decode" THEN [a |-> NoImage, err |-> Error("decode", NoPos)]
    ELSE IF Len(images) < 1 THEN [a |-> NoImage, err |-> Error("no image data", NoPos)]
    ELSE [a |-> images[1], err |-> NoErr]

\* mkBlobs(repo, tag, path, layers, opts); manifest.json is closed by the
\* deferred CheckedClose when it was opened
mkBlobs(path, ls, images, content, encType, fault) ==
    LET layerSet == LayerSet(ls)
        fh == FileHandle(Join(path, <<"manifest.json">>))
        image == mkArchiveStruct(images, fault)
        r == IF encType = Pbkdf2Aes256Gcm
             THEN pbkdf2Aes256GcmEncrypt(path, layerSet, image.a, content, fault)
             ELSE noneEncrypt(path, layerSet, image.a)
    IN  IF fault.kind = "open" THEN MkFailed(Error("open", NoPos), {}, {})
        ELSE IF image.err # NoErr THEN MkFailed(image.err, {fh}, {fh})
        ELSE IF encType \in {Pbkdf2Aes256Gcm, None} THEN
            [r EXCEPT !.opened = @ \cup {fh}, !.closed = @ \cup {fh}]
        ELSE MkFailed(Error("invalid encryption type", NoPos), {fh}, {fh})

\* the archive of an image of n layers: the names in manifest.json
ArchiveImage(n) ==
    [Config |-> <<"config.json">>,
     Layers |-> [k \in 1 .. n |-> Dec(k - 1) \o <<"/layer.tar">>]]

\* the contents of the layer files of an archive of n layers
RECURSIVE ArchiveContents(_)
ArchiveContents(n) ==
    IF n = 0 THEN { <<>> }
    ELSE { Append(cs, c) : cs \in ArchiveContents(n - 1), c \in Contents }

\* the lists of diff IDs layersToEncrypt can hand to mkBlobs
DiffIDLists ==
    LET ids == { String(FromReader(c)) : c \in Contents }
    IN  { <<>> } \cup { <<x>> : x \in ids } \cup { <<x, y>> : x \in ids, y \in ids }

\* the faults mkBlobs can meet on an archive of n layers
MkFaults(n, encType) ==
    {NoFault, [at |-> NoPos, kind |-> "open"], [at |-> NoPos, kind |-> "decode"]}
    \cup (IF encType # Pbkdf2Aes256Gcm THEN {}
          ELSE { [at |-> i, kind |-> k] :
                    i \in 0 .. n - 1, k \in {"NewDecrypto", "digest open", "digest read"} }
               \cup { [at |-> ConfigPos, kind |-> "NewDecrypto"] })

\* ------------------------------------------------------------------------
\* The pipeline as a state machine
\*   man     the manifest the caller holds
\*   orig    the manifest the run started from
\*   before  the manifest as it was when the last operation was called
\*   ret     what the last operation returned and did
\*   trail   the operations called so far, with their arguments
\*   pc      "new", "encrypted", "keys", "plain" or "failed"
\*   handles the files and readers that are open
\* and the layer selection:
\*   hist        the build history, newest first
\*   rootfs      inspt.RootFS.Layers, oldest first
\*   idx         i, the index of the record the loop visits next
\*   npos        n, the position counter
\*   toEncrypt   the flag
\*   encryptPos  the positions recorded so far
\*   visited     the records visited so far: index, position, flag, recorded
\*   sel         what layersToEncrypt returned
\*   selOld      what the earlier layersToEncrypt returns for the same image
\*   selPc       "scan" or "done"
\* and mkBlobs:
\*   mkImages    the images of manifest.json of the extracted archive
\*   mkContent   the content of each layer file of the archive
\*   mkLayers    layers, the diff IDs to encrypt
\*   mkEncType   opts.EncType
\*   mkRet       what mkBlobs returned, and the files it opened and closed
\*   mkPc        "call" or "done"
\* ------------------------------------------------------------------------

VARIABLES man, orig, before, ret, trail, pc, handles,
          hist, rootfs, idx, npos, toEncrypt, encryptPos, visited, sel, selOld, selPc,
          mkImages, mkContent, mkLayers, mkEncType, mkRet, mkPc

pipeVars == <<man, orig, before, ret, trail, pc, handles>>

selVars == <<hist, rootfs, idx, npos, toEncrypt, encryptPos, visited, sel, selOld, selPc>>

mkVars == <<mkImages, mkContent, mkLayers, mkEncType, mkRet, mkPc>>

vars == <<pipeVars, selVars, mkVars>>

NoSel == [err |-> NoErr, layers |-> <<>>]

\* the selection is not running
SelIdle ==
    /\ hist = <<>>
    /\ rootfs = <<>>
    /\ idx = 0
    /\ npos = 0
    /\ toEncrypt = FALSE
    /\ encryptPos = <<>>
    /\ visited = <<>>
    /\ sel = NoSel
    /\ selOld = NoSel
    /\ selPc = "off"

NoMkRet == [config |-> NilMkBlob, layers |-> <<>>, err |-> NoErr,
            opened |-> {}, closed |-> {}, fault |-> NoFault]

\* mkBlobs is not running
MkIdle ==
    /\ mkImages = <<>>
    /\ mkContent = <<>>
    /\ mkLayers = <<>>
    /\ mkEncType = ""
    /\ mkRet = NoMkRet
    /\ mkPc = "off"

NoRet == [op |-> "none", ok |-> FALSE, err |-> NoErr, calls |-> <<>>, salts |-> <<>>]

Call(op, ref, pass, fault) == [op |-> op, ref |-> ref, pass |-> pass, fault |-> fault]

Init ==
    /\ man \in InitManifests
    /\ orig = man
    /\ before = man
    /\ ret = NoRet
    /\ trail = <<>>
    /\ pc = "new"
    /\ handles = {}
    /\ SelIdle
    /\ MkIdle

\* out, err := man.Encrypt(ref, opts); the caller goes on with out
EncryptAct ==
    /\ pc = "new"
    /\ \E ref \in Refs, pass \in Passphrases, fault \in EncryptFaults(man) :
       \E onNil \in IF fault.kind = "open" THEN {"panic", "error"} ELSE {"error"} :
          LET r == Encrypt(man, ref, pass, fault, onNil)
          IN  /\ man' = IF r.ok THEN r.out ELSE man
              /\ before' = man
              /\ ret' = [op |-> "Encrypt", ok |-> r.ok, err |-> r.err,
                         calls |-> r.calls, salts |-> r.salts]
              /\ trail' = Append(trail, Call("Encrypt", ref, pass, fault))
              /\ pc' = IF r.ok THEN "encrypted" ELSE "failed"
              /\ handles' = handles \cup r.open
    /\ UNCHANGED <<orig, selVars, mkVars>>

\* err := man.DecryptKeys(opts, ref): man is changed in place
DecryptKeysAct ==
    /\ pc \in {"new", "encrypted"}
    /\ \E ref \in Refs, pass \in Passphrases :
          LET r == DecryptKeys(man, ref, pass)
          IN  /\ man' = r.m
              /\ before' = man
              /\ ret' = [op |-> "DecryptKeys", ok |-> r.err = NoErr, err |-> r.err,
                         calls |-> r.calls, salts |-> r.salts]
              /\ trail' = Append(trail, Call("DecryptKeys", ref, pass, NoFault))
              /\ pc' = IF r.err = NoErr THEN "keys" ELSE "failed"
    /\ UNCHANGED <<orig, handles, selVars, mkVars>>

\* out, err := DecryptManifest(man); the caller goes on with out
DecryptManifestAct ==
    /\ pc \in {"new", "keys"}
    /\ \E fault \in DecryptFaults(man) :
          LET r == DecryptManifest(man, fault)
          IN  /\ man' = IF r.ok THEN r.out ELSE man
              /\ before' = man
              /\ ret' = [op |-> "DecryptManifest", ok |-> r.ok, err |-> r.err,
                         calls |-> r.calls, salts |-> <<>>]
              /\ trail' = Append(trail, Call("DecryptManifest", PulledRef, "", fault))
              /\ pc' = IF r.ok THEN "plain" ELSE "failed"
    /\ UNCHANGED <<orig, handles, selVars, mkVars>>

Next == EncryptAct \/ DecryptKeysAct \/ DecryptManifestAct

Spec == Init /\ [][Next]_vars

\* ------------------------------------------------------------------------
\* The layer selection as a state machine
\* ------------------------------------------------------------------------

\* the pipeline is not running
PipeIdle ==
    /\ man = NoManifest
    /\ orig = NoManifest
    /\ before = NoManifest
    /\ ret = NoRet
    /\ trail = <<>>
    /\ pc = "off"
    /\ handles = {}

\* layersToEncrypt is called: the history and the layers of an image
InitSel ==
    /\ PipeIdle
    /\ MkIdle
    /\ hist \in Histories \cup {HistExample, HistBracketed, HistTwoPairs}
    /\ rootfs \in RootFSFor(hist)
    /\ idx = FirstIndex(hist)
    /\ npos = 0
    /\ toEncrypt = FALSE
    /\ encryptPos = <<>>
    /\ visited = <<>>
    /\ sel = NoSel
    /\ selOld = NoSel
    /\ selPc = "scan"

\* one turn of the loop of encryptPositions, on hist[idx]
ScanStep ==
    /\ selPc = "scan"
    /\ idx >= 0
    /\ LET h == hist[idx + 1]
       IN  IF IsLayerRecord(h)
           THEN /\ encryptPos' = IF toEncrypt THEN Append(encryptPos, RecordedPosition(npos))
                                  ELSE encryptPos
                /\ npos' = npos + 1
                /\ UNCHANGED toEncrypt
                /\ visited' = Append(visited, [index |-> idx, layer |-> TRUE, n |-> npos,
                                                armed |-> toEncrypt, recorded |-> toEncrypt])
           ELSE /\ toEncrypt' = Armed(toEncrypt, h)
                /\ UNCHANGED <<encryptPos, npos>>
                /\ visited' = Append(visited, [index |-> idx, layer |-> FALSE, n |-> npos,
                                                armed |-> Armed(toEncrypt, h),
                                                recorded |-> FALSE])
    /\ idx' = NextIndex(idx)
    /\ UNCHANGED <<hist, rootfs, sel, selOld, selPc, pipeVars, mkVars>>

\* the loop is over: encryptPositions returns, layersToEncrypt maps the
\* positions to diff IDs
ScanDone ==
    /\ selPc = "scan"
    /\ idx < 0
    /\ sel' = layersToEncrypt(encryptPos, rootfs)
    /\ selOld' = layersToEncryptOld(hist, rootfs)
    /\ selPc' = "done"
    /\ UNCHANGED <<hist, rootfs, idx, npos, toEncrypt, encryptPos, visited, pipeVars,
                   mkVars>>

NextSel == ScanStep \/ ScanDone

SpecSel == InitSel /\ [][NextSel]_vars

\* ------------------------------------------------------------------------
\* mkBlobs as a state machine
\* ------------------------------------------------------------------------

\* the path of the extracted archive (manifest.DirName)
MkPath == "tmp/uuid"

\* mkBlobs is called on an extracted archive, with the diff IDs to encrypt
InitMk ==
    /\ PipeIdle
    /\ SelIdle
    /\ \E n \in 0 .. MaxLayers :
          /\ mkImages \in { <<>>, <<ArchiveImage(n)>> }
          /\ mkContent \in ArchiveContents(n)
    /\ mkLayers \in DiffIDLists
    /\ mkEncType \in EncTypes
    /\ mkRet = NoMkRet
    /\ mkPc = "call"

\* configBlob, layerBlobs, err := mkBlobs(ref.Path(), ref.Tag(), manifest.DirName,
\* layers, opts)
MkBlobsAct ==
    /\ mkPc = "call"
    /\ \E fault \in MkFaults(Len(mkContent), mkEncType) :
          LET r == mkBlobs(MkPath, mkLayers, mkImages, mkContent, mkEncType, fault)
          IN  mkRet' = [config |-> r.config, layers |-> r.layers, err |-> r.err,
                        opened |-> r.opened, closed |-> r.closed, fault |-> fault]
    /\ mkPc' = "done"
    /\ UNCHANGED <<mkImages, mkContent, mkLayers, mkEncType, pipeVars, selVars>>

NextMk == MkBlobsAct

SpecMk == InitMk /\ [][NextMk]_vars

\* ------------------------------------------------------------------------
\* Properties of the pipeline (checked under Spec)
\* ------------------------------------------------------------------------

\* the arguments of the k-th call
CallIs(k, op) == Len(trail) >= k /\ trail[k].op = op

\* every blob of m is staged for encryption or plain, as mkBlobs makes them
StagedOrPlain(m) ==
    \A pos \in Positions(m) : BlobAt(m, pos).v \in {"DecryptedPending", "Plain"}

\* the first k calls are the calls of a round trip, met by no fault:
\* Encrypt, DecryptKeys with the same passphrase and reference, DecryptManifest
RoundTripCalls(k) ==
    /\ Len(trail) = k
    /\ CallIs(1, "Encrypt") /\ trail[1].fault = NoFault
    /\ k >= 2 => /\ CallIs(2, "DecryptKeys")
                 /\ trail[2].pass = trail[1].pass
                 /\ trail[2].ref = trail[1].ref
    /\ k >= 3 => CallIs(3, "DecryptManifest") /\ trail[3].fault = NoFault

\* m holds, blob for blob, the plain files of manifest o
SamePlainContent(m, o) ==
    /\ Len(m.Layers) = Len(o.Layers)
    /\ \A pos \in Positions(o) :
          /\ BlobAt(m, pos).v = "Plain"
          /\ BlobAt(m, pos).p = BlobAt(o, pos).p
          /\ BlobAt(m, pos).ops = BlobAt(o, pos).ops

\* C1: round trip. From a manifest whose blobs are staged or plain, Encrypt,
\* then DecryptKeys with the same passphrase and reference, then
\* DecryptManifest all succeed (no fault of the file system met), and the
\* manifest they end with holds the original plaintext of the config and of
\* every layer at the same index.
C1_RoundTrip ==
    StagedOrPlain(orig) =>
        /\ RoundTripCalls(1) => pc = "encrypted"
        /\ RoundTripCalls(2) => pc = "keys"
        /\ RoundTripCalls(3) => pc = "plain" /\ SamePlainContent(man, orig)

C1_Witness ==
    /\ RoundTripCalls(3)
    /\ pc = "plain"
    /\ Len(orig.Layers) = 3
    /\ orig.Config.v = "DecryptedPending"
    /\ orig.Layers[1].v = "Plain"
    /\ orig.Layers[2].v = "DecryptedPending"
    /\ SamePlainContent(man, orig)

\* the salt f(path, tag, "config") or f(path, tag, "layer", i), written out
ExpectedSalt(ref, pos) ==
    <<"c", "o", "m", ".", "s", "e", "n", "e", "t", "a", "s", ".",
      "c", "r", "y", "p", "t", "o", "/">>
    \o ref.path \o <<"/">> \o ref.tag
    \o (IF pos = ConfigPos THEN <<"/", "c", "o", "n", "f", "i", "g">>
        ELSE <<"/", "l", "a", "y", "e", "r">> \o Dec(pos))

\* the salt Encrypt derives for a reference and a position
EncryptSaltAt(ref, pos) ==
    IF pos = ConfigPos THEN EncryptConfigSalt(ref) ELSE EncryptLayerSalt(ref, pos)

\* C4: salt derivation. The salts Encrypt hands to the key derivation are
\* f(path, tag, "config") for the config and f(path, tag, "layer", i) for
\* layer i; within one manifest they are pairwise distinct; no other
\* (path, tag) gives the same salt for the same blob; and DecryptKeys, called
\* with the reference Encrypt was called with, uses at every position the
\* salt Encrypt wrapped that position's key with.
C4_SaltDerivation ==
    /\ ret.op = "Encrypt" =>
          /\ \A j \in 1 .. Len(ret.salts) :
                /\ ret.salts[j].salt = ExpectedSalt(trail[Len(trail)].ref, ret.salts[j].pos)
                /\ \A r \in AllRefs \ {trail[Len(trail)].ref} :
                      EncryptSaltAt(r, ret.salts[j].pos) # ret.salts[j].salt
          /\ \A j, k \in 1 .. Len(ret.salts) :
                j # k => ret.salts[j].salt # ret.salts[k].salt
          /\ ret.ok => \A pos \in Positions(man) :
                BlobAt(man, pos).v = "KeyWrapped" =>
                    BlobAt(man, pos).wk.salt = ExpectedSalt(trail[Len(trail)].ref, pos)
    /\ (Len(trail) = 2 /\ CallIs(1, "Encrypt") /\ CallIs(2, "DecryptKeys")
        /\ trail[2].ref = trail[1].ref) =>
          \A j \in 1 .. Len(ret.salts) :
              ret.salts[j].salt = BlobAt(before, ret.salts[j].pos).wk.salt

C4_Witness ==
    /\ Len(trail) = 2 /\ CallIs(1, "Encrypt") /\ CallIs(2, "DecryptKeys")
    /\ trail[2].ref = trail[1].ref
    /\ pc = "keys"
    /\ Len(ret.salts) = 4
    /\ \A pos \in Positions(before) : BlobAt(before, pos).v = "KeyWrapped"

WrappedFrom(src, dst) ==
    dst.v = "KeyWrapped" /\ dst.p = src.p /\ dst.ops = Append(src.ops, "aes")

\* a plain blob src came out compressed as dst
CompressedFrom(src, dst) ==
    dst.v = "Compressed" /\ dst.p = src.p /\ dst.ops = Append(src.ops, "gz")

\* the layers of a successful Encrypt: staged to KeyWrapped, plain to Compressed
LayersClassified ==
    \A i \in 1 .. Len(before.Layers) :
        /\ IsDecryptedBlob(before.Layers[i]) => WrappedFrom(before.Layers[i], man.Layers[i])
        /\ IsNoncryptedBlob(before.Layers[i]) =>
              CompressedFrom(before.Layers[i], man.Layers[i])

\* C6 as stated: config and layers alike, a staged blob ends KeyWrapped and
\* every other (plain) blob is compressed and ends Compressed.
C6_AsStated ==
    (ret.op = "Encrypt" /\ ret.ok) =>
        /\ LayersClassified
        /\ IsDecryptedBlob(before.Config) => WrappedFrom(before.Config, man.Config)
        /\ IsNoncryptedBlob(before.Config) => CompressedFrom(before.Config, man.Config)

\* C6 amended: a staged blob, config or layer, ends KeyWrapped; a plain layer
\* is compressed and ends Compressed; a plain config is not compressed: it is
\* passed on in the clear, the same file, as a Plain blob.
C6_Classification ==
    (ret.op = "Encrypt" /\ ret.ok) =>
        /\ LayersClassified
        /\ IsDecryptedBlob(before.Config) => WrappedFrom(before.Config, man.Config)
        /\ IsNoncryptedBlob(before.Config) =>
              /\ man.Config.v = "Plain"
              /\ man.Config.p = before.Config.p
              /\ man.Config.ops = before.Config.ops
              /\ man.Config.name = before.Config.name

\* three layers, only the last staged, the config plain
C6_Witness ==
    /\ ret.op = "Encrypt" /\ ret.ok
    /\ before.Config.v = "Plain"
    /\ Len(before.Layers) = 3
    /\ before.Layers[1].v = "Plain"
    /\ before.Layers[2].v = "Plain"
    /\ before.Layers[3].v = "DecryptedPending"
    /\ man.Config.v = "Plain"
    /\ man.Layers[1].v = "Compressed"
    /\ man.Layers[2].v = "Compressed"
    /\ man.Layers[3].v = "KeyWrapped"

\* the error of the operation a fault makes fail
FaultError(m, fault) ==
    IF fault.kind = "open" THEN Error("ReadCloser", ConfigPos)
    ELSE IF fault.kind = "read" THEN Error("Copy", ConfigPos)
    ELSE IF IsDecryptedBlob(BlobAt(m, fault.at)) THEN Error("EncryptBlob", fault.at)
    ELSE Error("Compress", fault.at)

\* C7 as stated: blobs are processed in order, config first; when the
\* transition of a blob fails (the plain config failing to open or to read
\* included) Encrypt returns that first error and no manifest, and no blob
\* after the failing one is transitioned.
C7_FirstFailure ==
    (ret.op = "Encrypt" /\ trail[Len(trail)].fault # NoFault) =>
        /\ ~ret.ok
        /\ ret.err = FaultError(before, trail[Len(trail)].fault)
        /\ \A j \in 1 .. Len(ret.calls) : ret.calls[j] <= trail[Len(trail)].fault.at
        /\ \A j \in 1 .. Len(ret.calls) - 1 : ret.calls[j] < ret.calls[j + 1]

\* C8 as stated, with the plain config of C6 counted as finished: Encrypt
\* returns an error, or a manifest in which the config and every layer is
\* present and KeyWrapped or Compressed.
C8_NoPartialEncryption ==
    (ret.op = "Encrypt" /\ ret.ok) =>
        \A pos \in Positions(man) :
            \/ BlobAt(man, pos).v \in {"KeyWrapped", "Compressed"}
            \/ /\ pos = ConfigPos
               /\ IsNoncryptedBlob(before.Config)
               /\ man.Config.v = "Plain"

\* C9: the effect of DecryptKeys. When it succeeds every KeyWrapped blob is
\* replaced at its position by its KeyUnwrapped form (the same file, the data
\* key recovered), every other blob is as it was, and the layers are as many
\* as before.
C9_DecryptKeysEffect ==
    (ret.op = "DecryptKeys" /\ ret.ok) =>
        /\ Len(man.Layers) = Len(before.Layers)
        /\ \A pos \in Positions(before) :
              IF BlobAt(before, pos).v = "KeyWrapped"
              THEN BlobAt(man, pos) =
                       [BlobAt(before, pos) EXCEPT !.v = "KeyUnwrapped",
                                                   !.key = BlobAt(before, pos).wk.k]
              ELSE BlobAt(man, pos) = BlobAt(before, pos)

C9_Witness ==
    /\ ret.op = "DecryptKeys" /\ ret.ok
    /\ Len(before.Layers) = 3
    /\ before.Config.v = "KeyWrapped"
    /\ before.Layers[1].v = "Compressed"
    /\ before.Layers[2].v = "KeyWrapped"
    /\ man.Layers[2].v = "KeyUnwrapped"
    /\ man.Layers[2].key = GenDataKey(1)

\* C10 as stated: a DecryptKeys that returns an error has changed no blob of
\* the manifest from KeyWrapped to KeyUnwrapped.
C10_DecryptKeysAtomic ==
    (ret.op = "DecryptKeys" /\ ~ret.ok) =>
        \A pos \in Positions(before) :
            ~(BlobAt(before, pos).v = "KeyWrapped" /\ BlobAt(man, pos).v = "KeyUnwrapped")

\* ------------------------------------------------------------------------
\* Properties of the layer selection (checked under SpecSel)
\* ------------------------------------------------------------------------

MissingLabel == [err |-> Error("missing label", NoPos), layers |-> <<>>]

Range(seq) == { seq[j] : j \in 1 .. Len(seq) }

\* the diff ID of the layer that record j of a history made, when every
\* record of nonzero size made one layer: RootFS lists the oldest first
LayerOfRecord(h, j) == DiffID(Cardinality({ k \in j .. Len(h) : h[k].Size # 0 }))

\* C2 as stated: for the history [marker true, A, B, marker false, C], newest
\* first, the selection succeeds and selects exactly the layers of A and B.
C2_AsStated ==
    (selPc = "done" /\ hist = HistExample) =>
        /\ sel.err = NoErr
        /\ Range(sel.layers) = {LayerOfRecord(hist, 2), LayerOfRecord(hist, 3)}

\* C2 amended: the history is walked from its last record to its first,
\* oldest to newest. For the list as given, whose LABEL=true marker is the
\* newest record, no layer is visited while the flag is armed and the
\* selection fails with the missing-label error; for the same build listed
\* with the markers around A and B in build order, newest first
\* [marker false, B, A, marker true, C], it succeeds and selects exactly the
\* layers of A and B, not that of C.
C2_Selection ==
    /\ \A j \in 1 .. Len(visited) : visited[j].index = Len(hist) - j
    /\ (selPc = "done" /\ hist = HistExample) => sel = MissingLabel
    /\ (selPc = "done" /\ hist = HistBracketed) =>
          /\ sel.err = NoErr
          /\ Range(sel.layers) = {LayerOfRecord(hist, 2), LayerOfRecord(hist, 3)}
          /\ LayerOfRecord(hist, 5) \notin Range(sel.layers)

C2_Witness ==
    /\ selPc = "done"
    /\ hist = HistBracketed
    /\ visited[1].index = 4
    /\ sel.err = NoErr
    /\ sel.layers = <<DiffID(2), DiffID(3)>>

\* a marker record: a metadata-only (size 0) LABEL instruction of the key
IsMarker(h) ==
    /\ h.Size = 0
    /\ Contains(h.CreatedBy, Nop)
    /\ Contains(h.CreatedBy, labelString)

NoMarker(h) == \A j \in 1 .. Len(h) : ~IsMarker(h[j])

\* C3: missing label. For a history without any marker record the selection
\* returns the 'not built with the correct LABEL' error and selects no layer
\* (encryptPositions, and numLayers before it).
C3_MissingLabel ==
    (selPc = "done" /\ NoMarker(hist)) =>
        /\ sel = MissingLabel
        /\ selOld = MissingLabel

C3_Witness ==
    /\ selPc = "done"
    /\ NoMarker(hist)
    /\ Len(hist) >= 3
    /\ \E j \in 1 .. Len(hist) : hist[j].Size # 0 /\ hist[j].CreatedBy = LabelTrue
    /\ \E j \in 1 .. Len(hist) : hist[j].Size = 0 /\ hist[j].CreatedBy = NopCmd
    /\ npos >= 2
    /\ sel = MissingLabel

\* ------------------------------------------------------------------------
\* Properties of DecryptManifest (checked under Spec)
\* ------------------------------------------------------------------------

\* C11 as stated, with a plain config handed on as it is counted as finished:
\* DecryptManifest returns an error, or a manifest in which the config and
\* every layer is a Plain blob; a blob that was neither KeyUnwrapped nor
\* Compressed makes it fail.
C11_DecryptCompleteness ==
    (ret.op = "DecryptManifest" /\ ret.ok) =>
        /\ \A pos \in Positions(man) : BlobAt(man, pos).v = "Plain"
        /\ \A pos \in Positions(before) :
              \/ BlobAt(before, pos).v \in {"KeyUnwrapped", "Compressed"}
              \/ pos = ConfigPos /\ before.Config.v = "Plain"

\* C14 as stated: every reader or file an operation of the pipeline opened
\* is closed on every exit path; after an operation has returned, with or
\* without an error, no handle it opened is still open.
C14_HandlesReleased == ret.op # "none" => handles = {}

\* ------------------------------------------------------------------------
\* Properties of the scan of encryptPositions (checked under SpecSel)
\* ------------------------------------------------------------------------

\* the record of the j-th visit
VisitedRecord(j) == hist[visited[j].index + 1]

\* a record of nonzero size
NonzeroSize(h) == h.Size # 0

\* a record of nonzero size, or one whose created-by has no "#(nop)" in it
NonzeroOrNoNop(h) == h.Size # 0 \/ ~Contains(h.CreatedBy, Nop)

\* how many of the first j - 1 visited records are Real
RealBefore(Real(_), j) ==
    Cardinality({ k \in 1 .. j - 1 : Real(VisitedRecord(k)) })

\* the Real records, and no others, consume a position and can be recorded:
\* the counter is the number of Real records visited, a visit's position is
\* the number of Real records before it, only Real records are recorded,
\* and every recorded position is that of a Real record
CountingBy(Real(_)) ==
    /\ npos = RealBefore(Real, Len(visited) + 1)
    /\ \A j \in 1 .. Len(visited) :
          /\ visited[j].n = RealBefore(Real, j)
          /\ visited[j].recorded => Real(VisitedRecord(j))
    /\ \A k \in 1 .. Len(encryptPos) :
          \E j \in 1 .. Len(visited) :
              /\ Real(VisitedRecord(j))
              /\ visited[j].recorded
              /\ encryptPos[k] = RealBefore(Real, j)

\* C12 as stated: only the records of nonzero size consume a position and
\* can be recorded; a record of size zero, whatever its created-by string,
\* never increments the counter and is never recorded.
C12_AsStated == CountingBy(NonzeroSize)

\* C12: a record consumes a position and can be recorded exactly when its
\* size is nonzero or its created-by string has no "#(nop)" in it; a record
\* of size zero with "#(nop)" never increments the counter and is never
\* recorded, so positions count the layers and not the raw history.
C12_Counting == CountingBy(NonzeroOrNoNop)

\* the scan is over; a record of size zero without "#(nop)" was recorded at
\* a position, a record of size zero with "#(nop)" took none, and the
\* counter is below the length of the history
C12_Witness ==
    /\ selPc = "done"
    /\ npos < Len(hist)
    /\ \E j \in 1 .. Len(visited) :
          /\ VisitedRecord(j) = [Size |-> 0, CreatedBy |-> RunCmd]
          /\ visited[j].recorded
          /\ visited[j].n \in Range(encryptPos)
    /\ \E j \in 1 .. Len(visited) - 1 :
          /\ VisitedRecord(j) = [Size |-> 0, CreatedBy |-> NopCmd]
          /\ visited[j + 1].n = visited[j].n

\* a marker: a zero-size "#(nop)" record that sets the label to true or false
IsLabelMarker(h) ==
    /\ IsMarker(h)
    /\ Contains(h.CreatedBy, "=true") \/ Contains(h.CreatedBy, "=false")

\* the visits before the j-th that were visits of a marker
MarkersBefore(j) == { k \in 1 .. j - 1 : IsLabelMarker(VisitedRecord(k)) }

\* the most recent marker visited before the j-th visit is LABEL=true
LastMarkerTrueBefore(j) ==
    /\ MarkersBefore(j) # {}
    /\ LET last == CHOOSE k \in MarkersBefore(j) : \A o \in MarkersBefore(j) : o <= k
       IN  Contains(VisitedRecord(last).CreatedBy, "=true")

\* C13: arming. At every point of the scan a counted layer has been recorded
\* (its position is in encryptPos) if and only if the most recent marker
\* visited before it is LABEL=true; the flag is armed exactly when the last
\* marker visited is LABEL=true, however many markers came before it.
C13_Arming ==
    /\ toEncrypt = LastMarkerTrueBefore(Len(visited) + 1)
    /\ \A j \in 1 .. Len(visited) :
          NonzeroOrNoNop(VisitedRecord(j)) =>
              /\ visited[j].recorded = LastMarkerTrueBefore(j)
              /\ (visited[j].n \in Range(encryptPos)) = LastMarkerTrueBefore(j)

\* the scan is over; a layer was recorded after LABEL=true, a later one was
\* not recorded after LABEL=false, and a layer after a second LABEL=true was
\* recorded again
C13_Witness ==
    /\ selPc = "done"
    /\ \E a, b, c \in 1 .. Len(visited) :
          /\ a < b /\ b < c
          /\ visited[a].layer /\ visited[a].recorded
          /\ visited[b].layer /\ ~visited[b].recorded
          /\ visited[c].layer /\ visited[c].recorded
          /\ Cardinality(MarkersBefore(c)) >= 3
    /\ Len(encryptPos) = 2

\* the positions are valid indexes of RootFS.Layers, strictly increasing
\* (so distinct), and layersToEncrypt did not index out of range
PositionsInRange ==
    /\ \A k \in 1 .. Len(encryptPos) :
          encryptPos[k] >= 0 /\ encryptPos[k] < Len(rootfs)
    /\ \A k \in 1 .. Len(encryptPos) - 1 : encryptPos[k] < encryptPos[k + 1]
    /\ sel.err # Error("panic", NoPos)
    /\ sel.err = NoErr =>
          /\ Len(sel.layers) = Len(encryptPos)
          /\ \A k \in 1 .. Len(encryptPos) : sel.layers[k] = rootfs[encryptPos[k] + 1]

\* how many records of the history are Real
NumReal(Real(_)) == Cardinality({ j \in 1 .. Len(hist) : Real(hist[j]) })

\* C15 as stated: when RootFS.Layers has as many layers as the history has
\* records of nonzero size, every position returned by encryptPositions is
\* a valid index of RootFS.Layers, the positions are strictly increasing,
\* and layersToEncrypt never indexes out of range.
C15_AsStated ==
    (selPc = "done" /\ Len(rootfs) = NumReal(NonzeroSize)) => PositionsInRange

\* C15: index safety. When RootFS.Layers has as many layers as the history
\* has layer records (nonzero size, or zero size without "#(nop)"), every
\* position returned by encryptPositions is a valid index of RootFS.Layers,
\* the positions are strictly increasing, and layersToEncrypt maps each to
\* the diff ID at that index without indexing out of range.
C15_IndexSafety ==
    (selPc = "done" /\ Len(rootfs) = NumReal(NonzeroOrNoNop)) => PositionsInRange

\* the image has more layers than records of nonzero size, several positions
\* were returned, the last of them the index of the newest layer, and the
\* diff IDs were selected
C15_Witness ==
    /\ selPc = "done"
    /\ Len(rootfs) = NumReal(NonzeroOrNoNop)
    /\ Len(rootfs) > NumReal(NonzeroSize)
    /\ Len(encryptPos) >= 2
    /\ encryptPos[Len(encryptPos)] = Len(rootfs) - 1
    /\ sel.err = NoErr
    /\ sel.layers[Len(sel.layers)] = DiffID(Len(rootfs))

\* a counted record was visited while the last marker before it was LABEL=true
ArmedVisit ==
    \E j \in 1 .. Len(visited) :
        NonzeroOrNoNop(VisitedRecord(j)) /\ LastMarkerTrueBefore(j)

\* C16: the missing-label error. When the scan is over, the 'not built with
\* the correct LABEL' error is returned exactly when no position was
\* recorded, which is exactly when no counted record was visited while the
\* flag was armed, markers or not; otherwise encryptPositions succeeds with
\* a non-empty list of positions.
C16_ErrorIffNothingRecorded ==
    selPc = "done" =>
        /\ Len(visited) = Len(hist)
        /\ (sel = MissingLabel) = (Len(encryptPos) = 0)
        /\ (sel = MissingLabel) = ~ArmedVisit
        /\ ArmedVisit => /\ Len(encryptPos) > 0
                         /\ sel.err # MissingLabel.err

\* the history has a LABEL=true marker and a LABEL=false marker and counted
\* records, none of them visited while armed: the error is returned
C16_Witness ==
    /\ selPc = "done"
    /\ \E j \in 1 .. Len(hist) : IsLabelMarker(hist[j]) /\ Contains(hist[j].CreatedBy, "=true")
    /\ \E j \in 1 .. Len(hist) : IsLabelMarker(hist[j]) /\ Contains(hist[j].CreatedBy, "=false")
    /\ npos >= 1
    /\ ~ArmedVisit
    /\ sel = MissingLabel

\* ------------------------------------------------------------------------
\* Properties of mkBlobs (checked under SpecMk)
\* ------------------------------------------------------------------------

\* the content digest of the file of layer i of the archive, as a string
ContentDigest(i) == String(FromReader(mkContent[i]))

\* the blob is staged for encryption
Staged(b) == b.v = "DecryptedPending"

\* C17: digest-keyed staging. When mkBlobs succeeds under the password-based
\* encryption type, the config is staged, the output has one blob per layer
\* of the archive, in the order of the archive, layer i is staged if and
\* only if the content digest of its file is one of the digests to encrypt
\* and is plain otherwise, and two layers with the same digest are
\* classified alike, wherever they are.
C17_DigestKeyedStaging ==
    (mkPc = "done" /\ mkEncType = Pbkdf2Aes256Gcm /\ mkRet.err = NoErr) =>
        LET image == mkImages[1]
        IN  /\ Staged(mkRet.config)
            /\ mkRet.config.name = Join(MkPath, image.Config)
            /\ Len(mkRet.layers) = Len(image.Layers)
            /\ \A i \in 1 .. Len(mkRet.layers) :
                  /\ mkRet.layers[i].name = Join(MkPath, image.Layers[i])
                  /\ mkRet.layers[i].v \in {"DecryptedPending", "Plain"}
                  /\ Staged(mkRet.layers[i]) = (ContentDigest(i) \in Range(mkLayers))
            /\ \A i, j \in 1 .. Len(mkRet.layers) :
                  ContentDigest(i) = ContentDigest(j) =>
                      mkRet.layers[i].v = mkRet.layers[j].v

\* mkBlobs succeeded on an archive in which two layers have the same digest,
\* both staged, and a layer between or around them has another digest and
\* is plain; the config is staged
C17_Witness ==
    /\ mkPc = "done"
    /\ mkEncType = Pbkdf2Aes256Gcm
    /\ mkRet.err = NoErr
    /\ Staged(mkRet.config)
    /\ Len(mkRet.layers) = 3
    /\ ContentDigest(1) = ContentDigest(3)
    /\ ContentDigest(1) # ContentDigest(2)
    /\ Staged(mkRet.layers[1]) /\ Staged(mkRet.layers[3])
    /\ mkRet.layers[2].v = "Plain"

====
